---- MODULE Spec2Model ----
(***************************************************************************)
(* Model of email_client/network/imap_client.py: the ImapClient session    *)
(* (connection lifecycle, XOAUTH2 / password authentication, the public    *)
(* operations) and the pure helpers it uses.                               *)
(*                                                                         *)
(* Text is a sequence of Unicode code points, bytes a sequence of 0..255.  *)
(***************************************************************************)
EXTENDS Integers, Sequences, FiniteSets, TLC

VARIABLES
    email,          \* self.account.email_address
    token_bundle,   \* self.token_bundle
    password,       \* self.password
    connection,     \* self.connection (None or the id of an IMAP4_SSL object)
    authenticated,  \* self._authenticated
    now,            \* datetime.now()
    nextConn,       \* number of IMAP4_SSL objects created so far
    sockets,        \* connections that are open (TLS up, no LOGOUT yet)
    op,             \* the last step: a call on the session, or "tick"
    wasReady,       \* whether the session was Ready when that step started
    raised,         \* what that call raised ("none" when it returned)
    trace,          \* the network events that call issued, in order
    returned,       \* what that call returned
    mailbox,        \* the server's folders: path -> [msgs by sequence number, uidnext]
    built,          \* result of the last direct call of the XOAUTH2 builder
    quoted,         \* argument and results of the last direct call of _quote_folder_name
    served,         \* the data the server answered that call's LIST or header FETCH with
    before,         \* the server's folders when that call started
    args            \* the arguments of that call

vars == << email, token_bundle, password, connection, authenticated, now,
           nextConn, sockets, op, wasReady, raised, trace, returned, mailbox,
           built, quoted, served, before, args >>

-----------------------------------------------------------------------------
(* Bounds of the model *)

MaxConns == 2       \* IMAP4_SSL objects one behaviour may create
MaxTime == 1        \* last clock value
MaxEmailLen == 2    \* length of the generated account emails
MaxUid == 2         \* highest UID a folder hands out
MaxLimit == 1       \* highest limit passed to fetch_headers
MaxPathLen == 4     \* length of the generated folder paths
MaxSegs == 4        \* pieces of a generated quoted token of a LIST line

-----------------------------------------------------------------------------
(* Text helpers *)

None == 0

\* str.isspace() for the code points str.strip() removes
IsSpace(c) ==
    c \in {9, 10, 11, 12, 13, 28, 29, 30, 31, 32, 133, 160, 5760, 8232, 8233, 8239, 8287, 12288}
    \/ (c >= 8192 /\ c <= 8202)

RECURSIVE lstrip(_)
lstrip(s) == IF s = << >> THEN << >>
             ELSE IF IsSpace(Head(s)) THEN lstrip(Tail(s))
             ELSE s

RECURSIVE rstrip(_)
rstrip(s) == IF s = << >> THEN << >>
             ELSE IF IsSpace(s[Len(s)]) THEN rstrip(SubSeq(s, 1, Len(s) - 1))
             ELSE s

\* mutant: only leading whitespace is removed
strip_lonly(s) == lstrip(s)

strip(s) == rstrip(lstrip(s))

\* str.encode('utf-8') of one code point
Utf8Char(c) ==
    IF c < 128 THEN << c >>
    ELSE IF c < 2048 THEN << 192 + (c \div 64), 128 + (c % 64) >>
    ELSE << 224 + (c \div 4096), 128 + ((c \div 64) % 64), 128 + (c % 64) >>

RECURSIVE encode_utf8(_)
encode_utf8(s) == IF s = << >> THEN << >>
                  ELSE Utf8Char(Head(s)) \o encode_utf8(Tail(s))

\* "user="
UserEq == << 117, 115, 101, 114, 61 >>
\* "\x01auth=Bearer "
AuthBearer == << 1, 97, 117, 116, 104, 61, 66, 101, 97, 114, 101, 114, 32 >>
\* "\x01\x01"
Trailer == << 1, 1 >>

-----------------------------------------------------------------------------
(* Results of a call: what it raised *)

NoError == "none"
ConnErr == "ImapConnectionError"
AuthErr == "ImapAuthenticationError"
OpErr == "ImapOperationError"

-----------------------------------------------------------------------------
(* ImapClient._build_xoauth2_bytes *)

Failed(e) == [raised |-> e, bytes |-> << >>]

\* the expiry test of the builder: expires_at stored and (expires_at - now) <= 0
TokenExpired(tb, t) == tb.has_expiry /\ tb.expires_at - t <= 0

_build_xoauth2_bytes(tb, addr, t) ==
    IF ~tb.present \/ tb.access_token = << >> THEN Failed(AuthErr)
    ELSE IF TokenExpired(tb, t) THEN Failed(AuthErr)
    ELSE [raised |-> NoError,
          bytes |-> encode_utf8(UserEq \o strip(addr) \o AuthBearer
                                \o tb.access_token \o Trailer)]

-----------------------------------------------------------------------------
(* The session and what the environment answers *)

Ready == connection # None /\ authenticated

\* one network event: a TLS connect, an HTTP request or an IMAP command,
\* with the connection it went to, whether the session was Ready then, what
\* was sent and what came back
NoReply == [kind |-> "none", error |-> FALSE, mail_scope |-> FALSE, expires_in |-> 0,
            email |-> << >>]
Ev(kind, c, rdy, payload, ans) ==
    [kind |-> kind, conn |-> c, ready |-> rdy, payload |-> payload, ans |-> ans,
     reply |-> NoReply]

\* the session fields a call leaves behind, the events it issued, what it raised
Outcome(c, a, n, s, evs, r) ==
    [connection |-> c, authenticated |-> a, nextConn |-> n, sockets |-> s,
     events |-> evs, raised |-> r]

\* replies of the token-introspection endpoint (requests.get(...).json()):
\* the request fails, the reply is no usable JSON object, or it is an object
\* with or without 'error', the mail scope in 'scope', 'expires_in', 'email'
TokenEmails == { << 97, 64, 98 >>, << 99, 64, 98 >> }
InfoFailures ==
    { [kind |-> k, error |-> FALSE, mail_scope |-> FALSE, expires_in |-> 0,
       email |-> << >>] : k \in {"RequestException", "unusable"} }
InfoConfirming ==
    [kind : {"reply"}, error : {FALSE}, mail_scope : {TRUE}, expires_in : {3600},
     email : TokenEmails]
InfoRejecting ==
    [kind : {"reply"}, error : BOOLEAN, mail_scope : BOOLEAN, expires_in : {0, 3600},
     email : {<< 97, 64, 98 >>}] \ InfoConfirming
TokenInfoReplies == InfoFailures \cup InfoConfirming \cup InfoRejecting

\* what imaplib answers to AUTHENTICATE / LOGIN: a status, IMAP4.error
\* (IMAP4.abort included) or a socket-level OSError
AuthAnswers == {"OK", "NO", "IMAP4.error", "OSError"}

\* one environment per course a connect can take: the TLS connect fails; the
\* introspection rejects; or it does not and AUTHENTICATE / LOGIN is answered
ConnectEnvs ==
    [tls : {"fail"}, info : {CHOOSE i \in InfoFailures : TRUE}, auth : {"OK"}]
    \cup [tls : {"ok"}, info : InfoRejecting, auth : {"OK"}]
    \cup [tls : {"ok"}, info : InfoFailures \cup InfoConfirming, auth : AuthAnswers]

-----------------------------------------------------------------------------
(* ImapClient._connect *)

\* the pre-validation against tokeninfo: what it raises out of _connect
PreCheck(info) ==
    IF info.kind = "RequestException" THEN NoError
    ELSE IF info.kind = "unusable" THEN NoError
    ELSE IF info.error THEN AuthErr
    ELSE IF ~info.mail_scope THEN AuthErr
    ELSE IF info.expires_in <= 0 THEN AuthErr
    ELSE NoError

\* the XOAUTH2 branch, on the freshly opened connection c
OAuthBranch(c, n, s, tls, env) ==
    LET fail(evs, e) == Outcome(c, authenticated, n, s, tls \o evs, e)
        info == [Ev("TOKENINFO", None, FALSE, token_bundle.access_token, env.info.kind)
                 EXCEPT !.reply = env.info]
        xo == _build_xoauth2_bytes(token_bundle, email, now)
        sasl == Ev("SASL", c, FALSE, xo.bytes, env.auth)
    IN  IF token_bundle.access_token = << >> THEN fail(<< >>, AuthErr)
        ELSE IF PreCheck(env.info) # NoError THEN fail(<< info >>, PreCheck(env.info))
        ELSE IF xo.raised # NoError THEN fail(<< info >>, xo.raised)
        ELSE IF env.auth = "OK"
             THEN Outcome(c, TRUE, n, s, tls \o << info, sasl >>, NoError)
        ELSE IF env.auth \in {"NO", "IMAP4.error"} THEN fail(<< info, sasl >>, AuthErr)
        ELSE fail(<< info, sasl >>, ConnErr)

\* the password branch, on the freshly opened connection c
PasswordBranch(c, n, s, tls, env) ==
    LET login == Ev("LOGIN", c, FALSE, password.value, env.auth)
    IN  IF env.auth = "OK"
        THEN Outcome(c, TRUE, n, s, tls \o << login >>, NoError)
        ELSE IF env.auth = "NO"
        THEN Outcome(c, authenticated, n, s, tls \o << login >>, AuthErr)
        ELSE Outcome(c, authenticated, n, s, tls \o << login >>, ConnErr)

\* what _connect does once past its first test
Establish(env) ==
    IF env.tls = "fail"
    THEN Outcome(connection, authenticated, nextConn, sockets,
                 << Ev("TLS", None, FALSE, << >>, "fail") >>, ConnErr)
    ELSE LET c == nextConn + 1
             s == sockets \cup {c}
             tls == << Ev("TLS", c, FALSE, << >>, "ok") >>
         IN  IF token_bundle.present THEN OAuthBranch(c, c, s, tls, env)
             ELSE IF password.present /\ password.value # << >>
             THEN PasswordBranch(c, c, s, tls, env)
             ELSE Outcome(c, authenticated, c, s, tls, AuthErr)

\* mutant: no test for a session that is already Ready
_connect_again(env) == Establish(env)

\* mutant: the connection a failed attempt left behind is shut before the
\* new one is opened
_connect_releasing(env) ==
    IF connection # None /\ authenticated
    THEN Outcome(connection, authenticated, nextConn, sockets, << >>, NoError)
    ELSE LET o == Establish(env)
         IN  [o EXCEPT !.sockets = @ \ (IF connection # None /\ o.connection # connection
                                        THEN {connection} ELSE {})]

\* mutant: a session that was closed does not connect again
_connect_once(env) ==
    IF connection # None /\ authenticated
    THEN Outcome(connection, authenticated, nextConn, sockets, << >>, NoError)
    ELSE IF connection = None /\ nextConn >= 1
    THEN Outcome(connection, authenticated, nextConn, sockets, << >>, ConnErr)
    ELSE Establish(env)

_connect(env) ==
    IF connection # None /\ authenticated
    THEN Outcome(connection, authenticated, nextConn, sockets, << >>, NoError)
    ELSE Establish(env)

\* mutant: looks at the connection only
_ensure_connected_connonly(env) ==
    IF connection = None THEN _connect(env)
    ELSE Outcome(connection, authenticated, nextConn, sockets, << >>, NoError)

_ensure_connected(env) ==
    IF ~authenticated \/ connection = None THEN _connect(env)
    ELSE Outcome(connection, authenticated, nextConn, sockets, << >>, NoError)

-----------------------------------------------------------------------------
(* ImapClient.close *)

LogoutAnswers == {"OK", "IMAP4.error", "OSError"}

\* mutant: a failing LOGOUT escapes and the fields are kept
close_propagating(ans) ==
    IF connection # None /\ authenticated
    THEN IF ans = "OK"
         THEN Outcome(None, FALSE, nextConn, sockets \ {connection},
                      << Ev("LOGOUT", connection, TRUE, << >>, ans) >>, NoError)
         ELSE Outcome(connection, authenticated, nextConn, sockets,
                      << Ev("LOGOUT", connection, TRUE, << >>, ans) >>, ans)
    ELSE Outcome(connection, authenticated, nextConn, sockets, << >>, NoError)

close(ans) ==
    IF connection # None /\ authenticated
    THEN Outcome(None, FALSE, nextConn,
                 IF ans = "OK" THEN sockets \ {connection} ELSE sockets,
                 << Ev("LOGOUT", connection, TRUE, << >>, ans) >>, NoError)
    ELSE Outcome(connection, authenticated, nextConn, sockets, << >>, NoError)

-----------------------------------------------------------------------------
(* ImapClient._quote_folder_name *)

Has(s, ch) == \E i \in 1..Len(s) : s[i] = ch

\* str.replace('"', '\\"')
RECURSIVE EscapeQuotes(_)
EscapeQuotes(s) ==
    IF s = << >> THEN << >>
    ELSE IF Head(s) = 34 THEN << 92, 34 >> \o EscapeQuotes(Tail(s))
    ELSE << Head(s) >> \o EscapeQuotes(Tail(s))

_quote_folder_name(folder_path) ==
    IF folder_path = << >> THEN folder_path
    ELSE IF folder_path[1] = 34 /\ folder_path[Len(folder_path)] = 34 THEN folder_path
    ELSE IF Has(folder_path, 32) \/ Has(folder_path, 91) \/ Has(folder_path, 93)
            \/ (Has(folder_path, 47) /\ folder_path[1] # 34)
    THEN << 34 >> \o EscapeQuotes(folder_path) \o << 34 >>
    ELSE folder_path

-----------------------------------------------------------------------------
(* The server's mailboxes and its answers to commands *)

\* "INBOX" and "[Gmail]/All Mail"
INBOX == << 73, 78, 66, 79, 88 >>
AllMail == << 91, 71, 109, 97, 105, 108, 93, 47, 65, 108, 108, 32, 77, 97, 105, 108 >>
\* the folders a caller addresses: those of the server
Folders == DOMAIN mailbox

Seen == "\\Seen"
Deleted == "\\Deleted"

\* a status, IMAP4.error (IMAP4.abort included) or a socket-level OSError
CmdAnswers == {"OK", "NO", "IMAP4.error", "OSError"}

\* the answers to the commands of one call: all OK up to command `at`,
\* which is answered `how` (commands after a failed one are never sent)
Plans == { [at |-> 0, how |-> "OK"] }
         \cup [at : 1..4, how : CmdAnswers \ {"OK"}]
Ans(plan, k) == IF plan.at = k THEN plan.how ELSE "OK"

RECURSIVE SelectMsgs(_, _)
SelectMsgs(msgs, uids) ==
    IF msgs = << >> THEN << >>
    ELSE IF Head(msgs).uid \in uids
         THEN << Head(msgs) >> \o SelectMsgs(Tail(msgs), uids)
         ELSE SelectMsgs(Tail(msgs), uids)

RECURSIVE DropDeleted(_)
DropDeleted(msgs) ==
    IF msgs = << >> THEN << >>
    ELSE IF Deleted \in Head(msgs).flags THEN DropDeleted(Tail(msgs))
         ELSE << Head(msgs) >> \o DropDeleted(Tail(msgs))

\* UID STORE uid +FLAGS (flag) in folder f
ServerStore(mb, f, uid, flag) ==
    [mb EXCEPT ![f].msgs = [i \in 1..Len(@) |->
        IF @[i].uid = uid THEN [@[i] EXCEPT !.flags = @ \cup {flag}] ELSE @[i]]]

RECURSIVE Renumber(_, _)
Renumber(msgs, next) ==
    IF msgs = << >> THEN << >>
    ELSE << [Head(msgs) EXCEPT !.uid = next] >> \o Renumber(Tail(msgs), next + 1)

\* UID COPY uid dest from folder f: the copies get the next UIDs of dest
ServerCopy(mb, f, uid, dest) ==
    LET hits == SelectMsgs(mb[f].msgs, {uid})
    IN  [mb EXCEPT ![dest] = [msgs |-> @.msgs \o Renumber(hits, @.uidnext),
                              uidnext |-> @.uidnext + Len(hits)]]

\* EXPUNGE in folder f
ServerExpunge(mb, f) == [mb EXCEPT ![f].msgs = DropDeleted(@)]

-----------------------------------------------------------------------------
(* Results of the public operations *)

NoRet == << >>

\* a command sent on the connection the guard left behind
Cmd(kind, c, payload, ans) ==
    Ev(kind, c.connection, c.connection # None /\ c.authenticated, payload, ans)

\* what a public operation leaves behind: c is the guard's outcome
OpResult(c, evs, r, ret, mb) ==
    [connection |-> c.connection, authenticated |-> c.authenticated,
     nextConn |-> c.nextConn, sockets |-> c.sockets,
     events |-> c.events \o evs, raised |-> r, ret |-> ret, mailbox |-> mb]

-----------------------------------------------------------------------------
(* ImapClient.list_folders and _parse_folder_list_item *)

\* re.findall(r'"([^"]*)"', s): the quoted strings of s, left to right
RECURSIVE QuotedStrings(_, _, _)
QuotedStrings(s, inside, cur) ==
    IF s = << >> THEN << >>
    ELSE IF Head(s) = 34
         THEN IF inside THEN << cur >> \o QuotedStrings(Tail(s), FALSE, << >>)
              ELSE QuotedStrings(Tail(s), TRUE, << >>)
         ELSE IF inside THEN QuotedStrings(Tail(s), TRUE, Append(cur, Head(s)))
              ELSE QuotedStrings(Tail(s), FALSE, << >>)

RECURSIVE LastIndexOf(_, _)
LastIndexOf(s, ch) ==
    IF s = << >> THEN 0
    ELSE IF s[Len(s)] = ch THEN Len(s)
    ELSE LastIndexOf(SubSeq(s, 1, Len(s) - 1), ch)

\* str.upper() on ASCII letters
Upper(s) == [i \in 1..Len(s) |-> IF s[i] >= 97 /\ s[i] <= 122 THEN s[i] - 32 ELSE s[i]]

Contains(s, w) ==
    \E i \in 1..(Len(s) - Len(w) + 1) : SubSeq(s, i, i + Len(w) - 1) = w

W_SENT == << 83, 69, 78, 84 >>
W_DRAFT == << 68, 82, 65, 70, 84 >>
W_TRASH == << 84, 82, 65, 83, 72 >>
W_DELETED == << 68, 69, 76, 69, 84, 69, 68 >>

\* str.lower() on ASCII letters
Lower(s) == [i \in 1..Len(s) |-> IF s[i] >= 65 /\ s[i] <= 90 THEN s[i] + 32 ELSE s[i]]

\* str.isspace()
isspace(s) == s # << >> /\ \A i \in 1..Len(s) : IsSpace(s[i])

\* s.find(w, from): the first place at or after from where w stands, or 0
IndexFrom(s, w, from) ==
    LET hits == { j \in from..(Len(s) - Len(w) + 1) : SubSeq(s, j, j + Len(w) - 1) = w }
    IN  IF hits = {} THEN 0 ELSE CHOOSE j \in hits : \A k \in hits : j <= k

\* the encoded word =?charset?q?encoded?= that decode_header's pattern
\* matches at place i of s (base64 words do not occur in the lines drawn)
NoWord == [start |-> 0, charset |-> << >>, encoded |-> << >>, end |-> 0]
EncodedWordAt(s, i) ==
    LET mark == IndexFrom(s, << 63 >>, i + 2)
        closing == IndexFrom(s, << 63, 61 >>, mark + 3)
    IN  IF /\ i + 1 <= Len(s) /\ s[i] = 61 /\ s[i + 1] = 63
           /\ mark # 0 /\ mark + 2 <= Len(s)
           /\ s[mark + 1] \in {113, 81} /\ s[mark + 2] = 63
           /\ closing # 0
        THEN [start |-> i, charset |-> SubSeq(s, i + 2, mark - 1),
              encoded |-> SubSeq(s, mark + 3, closing - 1), end |-> closing + 1]
        ELSE NoWord

FirstWord(s) ==
    LET at == { i \in 1..Len(s) : EncodedWordAt(s, i) # NoWord }
    IN  IF at = {} THEN NoWord
        ELSE EncodedWordAt(s, CHOOSE i \in at : \A k \in at : i <= k)

\* decode_header's split of a line into unencoded runs and encoded words:
\* the first run loses its leading whitespace, empty runs are left out; m is
\* the first encoded word of the line
RECURSIVE Words(_, _)
WordsAround(line, first, m) ==
    LET upto == IF m = NoWord THEN line ELSE SubSeq(line, 1, m.start - 1)
        unencoded == IF first THEN lstrip(upto) ELSE upto
        plain == IF unencoded = << >> THEN << >>
                 ELSE << [text |-> unencoded, encoded |-> FALSE, charset |-> << >>] >>
    IN  IF m = NoWord THEN plain
        ELSE plain
             \o << [text |-> m.encoded, encoded |-> TRUE, charset |-> Lower(m.charset)] >>
             \o Words(SubSeq(line, m.end + 1, Len(line)), FALSE)

Words(line, first) == WordsAround(line, first, FirstWord(line))

\* a word of whitespace between two encoded words is removed
RECURSIVE Without(_, _, _)
Without(words, drop, k) ==
    IF k > Len(words) THEN << >>
    ELSE (IF k \in drop THEN << >> ELSE << words[k] >>) \o Without(words, drop, k + 1)

DropSpaces(words) ==
    Without(words,
            { n - 1 : n \in { n \in 3..Len(words) :
                                /\ words[n].encoded /\ words[n - 2].encoded
                                /\ isspace(words[n - 1].text) } },
            1)

IsHex(c) == c \in 48..57 \/ c \in 65..70 \/ c \in 97..102
HexVal(c) == IF c <= 57 THEN c - 48 ELSE IF c <= 70 THEN c - 55 ELSE c - 87

\* email.quoprimime.header_decode: _ is a space, =XX the byte XX
RECURSIVE header_decode(_)
header_decode(s) ==
    IF s = << >> THEN << >>
    ELSE IF s[1] = 61 /\ Len(s) >= 3 /\ IsHex(s[2]) /\ IsHex(s[3])
    THEN << 16 * HexVal(s[2]) + HexVal(s[3]) >> \o header_decode(SubSeq(s, 4, Len(s)))
    ELSE << IF s[1] = 95 THEN 32 ELSE s[1] >> \o header_decode(Tail(s))

\* consecutive words of one charset become one part (two unencoded runs
\* are joined by a space); a part is its bytes with its charset
RECURSIVE Collapse(_)
Collapse(words) ==
    IF Len(words) <= 1 THEN words
    ELSE LET rest == Collapse(Tail(words))
             w == Head(words)
             nxt == Head(rest)
         IN  IF w.encoded = nxt.encoded /\ w.charset = nxt.charset
             THEN << [nxt EXCEPT !.text = w.text \o (IF w.encoded THEN << >> ELSE << 32 >>)
                                             \o nxt.text] >> \o Tail(rest)
             ELSE << w >> \o rest

\* the q words decoded to their bytes, then collapsed
DecodeWords(words) ==
    Collapse([k \in 1..Len(words) |->
                IF words[k].encoded
                THEN [words[k] EXCEPT !.text = header_decode(words[k].text)]
                ELSE words[k]])

\* email.header.decode_header on a line with an encoded word
decode_header(header) == DecodeWords(DropSpaces(Words(header, TRUE)))

\* bytes.decode('utf-8', errors='ignore'), for sequences of one and two
\* bytes (lead bytes from 0xE0 on do not occur here)
RECURSIVE decode_utf8_ignore(_)
decode_utf8_ignore(b) ==
    IF b = << >> THEN << >>
    ELSE IF b[1] < 128 THEN << b[1] >> \o decode_utf8_ignore(Tail(b))
    ELSE IF b[1] \in 194..223 /\ Len(b) >= 2 /\ b[2] \in 128..191
    THEN << (b[1] - 192) * 64 + (b[2] - 128) >>
         \o decode_utf8_ignore(SubSeq(b, 3, Len(b)))
    ELSE decode_utf8_ignore(Tail(b))

\* bytes.decode('utf-8'): fails where the bytes are no UTF-8
RECURSIVE IsUtf8(_)
IsUtf8(b) ==
    IF b = << >> THEN TRUE
    ELSE IF b[1] < 128 THEN IsUtf8(Tail(b))
    ELSE /\ b[1] \in 194..223 /\ Len(b) >= 2 /\ b[2] \in 128..191
         /\ IsUtf8(SubSeq(b, 3, Len(b)))

\* "utf-8", the one codec name among the charsets drawn; any other name
\* makes bytes.decode raise LookupError, unless there are no bytes to decode
Utf8Name == << 117, 116, 102, 45, 56 >>

RECURSIVE JoinParts(_)
JoinParts(parts) ==
    IF parts = << >> THEN << >>
    ELSE (IF Head(parts).charset # << >> THEN Head(parts).text
          ELSE decode_utf8_ignore(Head(parts).text)) \o JoinParts(Tail(parts))

\* the loop over decoded_parts: a part with a charset is decoded with it,
\* any other as UTF-8 without its invalid bytes; where a decoding raises,
\* the path stays as it was
PathOfParts(server_path, decoded_parts) ==
    IF \E k \in 1..Len(decoded_parts) :
           /\ decoded_parts[k].charset # << >>
           /\ decoded_parts[k].text # << >>
           /\ \/ decoded_parts[k].charset # Utf8Name
              \/ ~IsUtf8(decoded_parts[k].text)
    THEN server_path
    ELSE JoinParts([k \in 1..Len(decoded_parts) |->
            IF decoded_parts[k].charset # << >>
            THEN [decoded_parts[k] EXCEPT
                      !.text = decode_utf8_ignore(decoded_parts[k].text)]
            ELSE decoded_parts[k]])

\* the decoding of the server path; decode_header gives a path without
\* encoded words back as it is
DecodedPath(server_path) ==
    IF FirstWord(server_path) = NoWord THEN server_path
    ELSE PathOfParts(server_path, decode_header(server_path))

\* mutant: the name is what follows the first '/' of the path
FolderFirstSep(server_path) ==
    [name |-> SubSeq(server_path, IndexFrom(server_path, << 47 >>, 1) + 1,
                     Len(server_path)),
     server_path |-> server_path, is_system_folder |-> FALSE, unread_count |-> 0]

\* the Folder of a decoded server path
FolderOfPath(server_path) ==
    LET name == IF Has(server_path, 47)
                THEN SubSeq(server_path, LastIndexOf(server_path, 47) + 1,
                            Len(server_path))
                ELSE server_path
        path_upper == Upper(server_path)
    IN  [name |-> name, server_path |-> server_path,
         is_system_folder |->
             path_upper = INBOX \/ Contains(path_upper, W_SENT)
             \/ Contains(path_upper, W_DRAFT) \/ Contains(path_upper, W_TRASH)
             \/ Contains(path_upper, W_DELETED),
         unread_count |-> 0]

\* None is modelled as the empty result << >>, a Folder as << record >>
FolderOfTokens(quoted_strings) ==
    IF quoted_strings = << >> THEN << >>
    ELSE << FolderOfPath(DecodedPath(quoted_strings[Len(quoted_strings)])) >>

\* the line is ASCII, which bytes.decode('utf-8', errors='ignore') keeps
_parse_folder_list_item(folder_data) ==
    FolderOfTokens(QuotedStrings(folder_data, FALSE, << >>))

RECURSIVE ParseLines(_)
ParseLines(data) ==
    IF data = << >> THEN << >>
    ELSE _parse_folder_list_item(Head(data)) \o ParseLines(Tail(data))

\* list_folders giving up at a line that does not parse
list_folders_strict(envc, ans, data) ==
    LET c == _ensure_connected(envc)
        list == Cmd("LIST", c, << >>, ans)
    IN  IF c.raised # NoError THEN OpResult(c, << >>, c.raised, NoRet, mailbox)
        ELSE IF ans # "OK" THEN OpResult(c, << list >>, OpErr, NoRet, mailbox)
        ELSE IF \E i \in 1..Len(data) : _parse_folder_list_item(data[i]) = << >>
             THEN OpResult(c, << list >>, OpErr, NoRet, mailbox)
        ELSE OpResult(c, << list >>, NoError, ParseLines(data), mailbox)

list_folders(envc, ans, data) ==
    LET c == _ensure_connected(envc)
        list == Cmd("LIST", c, << >>, ans)
    IN  IF c.raised # NoError THEN OpResult(c, << >>, c.raised, NoRet, mailbox)
        ELSE IF ans # "OK" THEN OpResult(c, << list >>, OpErr, NoRet, mailbox)
        ELSE OpResult(c, << list >>, NoError, ParseLines(data), mailbox)

-----------------------------------------------------------------------------
(* ImapClient.mark_read and move_message *)

\* mark_read letting what the transport raises through
mark_read_unwrapped(folder, message_uid, envc, plan) ==
    LET c == _ensure_connected(envc)
        sel == Cmd("SELECT", c, _quote_folder_name(folder), Ans(plan, 1))
        store == Cmd("STORE", c, << message_uid >>, Ans(plan, 2))
        err(a) == IF a = "NO" THEN OpErr ELSE a
    IN  IF c.raised # NoError THEN OpResult(c, << >>, c.raised, NoRet, mailbox)
        ELSE IF Ans(plan, 1) # "OK"
             THEN OpResult(c, << sel >>, err(Ans(plan, 1)), NoRet, mailbox)
        ELSE IF Ans(plan, 2) # "OK"
             THEN OpResult(c, << sel, store >>, err(Ans(plan, 2)), NoRet, mailbox)
        ELSE OpResult(c, << sel, store >>, NoError, NoRet,
                      ServerStore(mailbox, folder, message_uid, Seen))

\* mark_read storing with FLAGS, which replaces the flags, for +FLAGS
mark_read_replacing(folder, message_uid, envc, plan) ==
    LET c == _ensure_connected(envc)
        sel == Cmd("SELECT", c, _quote_folder_name(folder), Ans(plan, 1))
        store == Cmd("STORE", c, << message_uid >>, Ans(plan, 2))
    IN  IF c.raised # NoError THEN OpResult(c, << >>, c.raised, NoRet, mailbox)
        ELSE IF Ans(plan, 1) # "OK" THEN OpResult(c, << sel >>, OpErr, NoRet, mailbox)
        ELSE IF Ans(plan, 2) # "OK"
             THEN OpResult(c, << sel, store >>, OpErr, NoRet, mailbox)
        ELSE OpResult(c, << sel, store >>, NoError, NoRet,
                      [mailbox EXCEPT ![folder].msgs = [i \in 1..Len(@) |->
                          IF @[i].uid = message_uid THEN [@[i] EXCEPT !.flags = {Seen}]
                          ELSE @[i]]])

\* mutant: a command that raises makes the session drop its connection
mark_read_dropping(folder, message_uid, envc, plan) ==
    LET c == _ensure_connected(envc)
        sel == Cmd("SELECT", c, _quote_folder_name(folder), Ans(plan, 1))
        store == Cmd("STORE", c, << message_uid >>, Ans(plan, 2))
        gone == [c EXCEPT !.connection = None, !.authenticated = FALSE]
        after(ans) == IF ans \in {"IMAP4.error", "OSError"} THEN gone ELSE c
    IN  IF c.raised # NoError THEN OpResult(c, << >>, c.raised, NoRet, mailbox)
        ELSE IF Ans(plan, 1) # "OK"
             THEN OpResult(after(Ans(plan, 1)), << sel >>, OpErr, NoRet, mailbox)
        ELSE IF Ans(plan, 2) # "OK"
             THEN OpResult(after(Ans(plan, 2)), << sel, store >>, OpErr, NoRet, mailbox)
        ELSE OpResult(c, << sel, store >>, NoError, NoRet,
                      ServerStore(mailbox, folder, message_uid, Seen))

mark_read(folder, message_uid, envc, plan) ==
    LET c == _ensure_connected(envc)
        sel == Cmd("SELECT", c, _quote_folder_name(folder), Ans(plan, 1))
        store == Cmd("STORE", c, << message_uid >>, Ans(plan, 2))
    IN  IF c.raised # NoError THEN OpResult(c, << >>, c.raised, NoRet, mailbox)
        ELSE IF Ans(plan, 1) # "OK" THEN OpResult(c, << sel >>, OpErr, NoRet, mailbox)
        ELSE IF Ans(plan, 2) # "OK"
             THEN OpResult(c, << sel, store >>, OpErr, NoRet, mailbox)
        ELSE OpResult(c, << sel, store >>, NoError, NoRet,
                      ServerStore(mailbox, folder, message_uid, Seen))

\* move_message without the test of the STORE result
move_message_unchecked(src, dest, message_uid, envc, plan) ==
    LET c == _ensure_connected(envc)
        sel == Cmd("SELECT", c, _quote_folder_name(src), Ans(plan, 1))
        copy == Cmd("COPY", c, _quote_folder_name(dest), Ans(plan, 2))
        store == Cmd("STORE", c, << message_uid >>, Ans(plan, 3))
        expunge == Cmd("EXPUNGE", c, << >>, IF plan.at = 3 THEN "OK" ELSE Ans(plan, 4))
        mb1 == ServerCopy(mailbox, src, message_uid, dest)
        mb2 == IF Ans(plan, 3) = "OK" THEN ServerStore(mb1, src, message_uid, Deleted)
               ELSE mb1
        mb3 == ServerExpunge(mb2, src)
    IN  IF c.raised # NoError THEN OpResult(c, << >>, c.raised, NoRet, mailbox)
        ELSE IF Ans(plan, 1) # "OK" THEN OpResult(c, << sel >>, OpErr, NoRet, mailbox)
        ELSE IF Ans(plan, 2) # "OK"
             THEN OpResult(c, << sel, copy >>, OpErr, NoRet, mailbox)
        ELSE IF Ans(plan, 4) # "OK"
             THEN OpResult(c, << sel, copy, store, expunge >>, OpErr, NoRet, mb2)
        ELSE OpResult(c, << sel, copy, store, expunge >>, NoError, NoRet, mb3)

\* the EXPUNGE removes the moved message only (a UID EXPUNGE)
move_message_uid_expunge(src, dest, message_uid, envc, plan) ==
    LET c == _ensure_connected(envc)
        sel == Cmd("SELECT", c, _quote_folder_name(src), Ans(plan, 1))
        copy == Cmd("COPY", c, _quote_folder_name(dest), Ans(plan, 2))
        store == Cmd("STORE", c, << message_uid >>, Ans(plan, 3))
        expunge == Cmd("EXPUNGE", c, << >>, Ans(plan, 4))
        mb1 == ServerCopy(mailbox, src, message_uid, dest)
        mb2 == ServerStore(mb1, src, message_uid, Deleted)
        mb3 == [mb2 EXCEPT ![src].msgs =
                    SelectMsgs(@, { @[i].uid : i \in 1..Len(@) } \ {message_uid})]
    IN  IF c.raised # NoError THEN OpResult(c, << >>, c.raised, NoRet, mailbox)
        ELSE IF Ans(plan, 1) # "OK" THEN OpResult(c, << sel >>, OpErr, NoRet, mailbox)
        ELSE IF Ans(plan, 2) # "OK"
             THEN OpResult(c, << sel, copy >>, OpErr, NoRet, mailbox)
        ELSE IF Ans(plan, 3) # "OK"
             THEN OpResult(c, << sel, copy, store >>, OpErr, NoRet, mb1)
        ELSE IF Ans(plan, 4) # "OK"
             THEN OpResult(c, << sel, copy, store, expunge >>, OpErr, NoRet, mb2)
        ELSE OpResult(c, << sel, copy, store, expunge >>, NoError, NoRet, mb3)

move_message(src, dest, message_uid, envc, plan) ==
    LET c == _ensure_connected(envc)
        sel == Cmd("SELECT", c, _quote_folder_name(src), Ans(plan, 1))
        copy == Cmd("COPY", c, _quote_folder_name(dest), Ans(plan, 2))
        store == Cmd("STORE", c, << message_uid >>, Ans(plan, 3))
        expunge == Cmd("EXPUNGE", c, << >>, Ans(plan, 4))
        mb1 == ServerCopy(mailbox, src, message_uid, dest)
        mb2 == ServerStore(mb1, src, message_uid, Deleted)
        mb3 == ServerExpunge(mb2, src)
    IN  IF c.raised # NoError THEN OpResult(c, << >>, c.raised, NoRet, mailbox)
        ELSE IF Ans(plan, 1) # "OK" THEN OpResult(c, << sel >>, OpErr, NoRet, mailbox)
        ELSE IF Ans(plan, 2) # "OK"
             THEN OpResult(c, << sel, copy >>, OpErr, NoRet, mailbox)
        ELSE IF Ans(plan, 3) # "OK"
             THEN OpResult(c, << sel, copy, store >>, OpErr, NoRet, mb1)
        ELSE IF Ans(plan, 4) # "OK"
             THEN OpResult(c, << sel, copy, store, expunge >>, OpErr, NoRet, mb2)
        ELSE OpResult(c, << sel, copy, store, expunge >>, NoError, NoRet, mb3)

-----------------------------------------------------------------------------
(* ImapClient.fetch_headers, _fetch_message_headers_batch and the fallback *)

\* one item of the data imaplib returns for a FETCH
TupleItem(m) == [t |-> "tuple", uid |-> m.uid, flags |-> m.flags, hdr |-> m.hdr]
MetaItem(m) == [t |-> "bytes", uid |-> m.uid, flags |-> m.flags, hdr |-> 0]
HdrItem(m) == [t |-> "bytes", uid |-> 0, flags |-> {}, hdr |-> m.hdr]
CloseItem == [t |-> "bytes", uid |-> 0, flags |-> {}, hdr |-> 0]
NoneItem == [t |-> "other", uid |-> 0, flags |-> {}, hdr |-> 0]

Shapes == {"tuples", "flat", "flat_close", "none", "empty"}

RECURSIVE FetchData(_, _)
FetchData(msgs, shape) ==
    IF shape = "empty" THEN << >>
    ELSE IF shape = "none" THEN << NoneItem >>
    ELSE IF msgs = << >> THEN << >>
    ELSE (IF shape = "tuples" THEN << TupleItem(Head(msgs)), CloseItem >>
          ELSE IF shape = "flat" THEN << MetaItem(Head(msgs)), HdrItem(Head(msgs)) >>
          ELSE << MetaItem(Head(msgs)), HdrItem(Head(msgs)), CloseItem >>)
         \o FetchData(Tail(msgs), shape)

\* the while loop pairing data[i], data[i+1] (i counted from 1 here)
RECURSIVE PairUp(_, _)
PairUp(data, i) ==
    IF i >= Len(data) THEN << >>
    ELSE IF data[i].t = "bytes" /\ data[i + 1].t = "bytes"
         THEN << [t |-> "tuple", uid |-> data[i].uid, flags |-> data[i].flags,
                  hdr |-> data[i + 1].hdr] >> \o PairUp(data, i + 2)
         ELSE PairUp(data, i + 1)

EmailMessage(uid, item) ==
    [uid_on_server |-> uid, hdr |-> item.hdr, flags |-> item.flags,
     is_read |-> Seen \in item.flags]

\* the for loop over response_items
RECURSIVE ParseItems(_)
ParseItems(items) ==
    IF items = << >> THEN << >>
    ELSE LET it == Head(items)
         IN  (IF it.t # "tuple" \/ it.uid = 0 THEN << >>
              ELSE << EmailMessage(it.uid, it) >>) \o ParseItems(Tail(items))

\* gives up at the first uid whose fetch fails
RECURSIVE _fallback_individual_fetch_stops(_, _, _)
_fallback_individual_fetch_stops(uid_list, msgs, bad) ==
    IF uid_list = << >> THEN << >>
    ELSE LET uid == Head(uid_list)
             hit == SelectMsgs(msgs, {uid})
         IN  IF uid \in bad \/ hit = << >> THEN << >>
             ELSE << EmailMessage(uid, TupleItem(hit[1])) >>
                  \o _fallback_individual_fetch_stops(Tail(uid_list), msgs, bad)

\* _fetch_message_headers for each uid of uid_list; bad: the uids whose
\* fetch fails or returns nothing usable
RECURSIVE _fallback_individual_fetch(_, _, _)
_fallback_individual_fetch(uid_list, msgs, bad) ==
    IF uid_list = << >> THEN << >>
    ELSE LET uid == Head(uid_list)
             hit == SelectMsgs(msgs, {uid})
         IN  (IF uid \in bad \/ hit = << >> THEN << >>
              ELSE << EmailMessage(uid, TupleItem(hit[1])) >>)
             \o _fallback_individual_fetch(Tail(uid_list), msgs, bad)

SeqToSet(q) == { q[i] : i \in 1..Len(q) }

_fetch_message_headers_batch(uid_list, msgs, ans, shape, bad) ==
    IF uid_list = << >> THEN << >>
    ELSE IF ans # "OK" THEN _fallback_individual_fetch(uid_list, msgs, bad)
    ELSE LET data == FetchData(SelectMsgs(msgs, SeqToSet(uid_list)), shape)
         IN  IF data = << >> THEN << >>
             ELSE IF data[1].t = "tuple" THEN ParseItems(data)
             ELSE ParseItems(PairUp(data, 1))

Reverse(q) == [i \in 1..Len(q) |-> q[Len(q) + 1 - i]]

\* uid_list[-limit:] if len(uid_list) > limit else uid_list
TakeLast(uid_list, limit) ==
    IF Len(uid_list) > limit
    THEN IF limit = 0 THEN uid_list
         ELSE SubSeq(uid_list, Len(uid_list) - limit + 1, Len(uid_list))
    ELSE uid_list

\* the events of the fetches: one batch FETCH, then one per uid when the
\* fallback runs
FetchEvents(c, uid_list, ans, bad) ==
    << Cmd("FETCH", c, uid_list, ans) >>
    \o (IF ans # "OK"
        THEN [i \in 1..Len(uid_list) |->
                 Cmd("FETCH", c, << uid_list[i] >>,
                     IF uid_list[i] \in bad THEN "NO" ELSE "OK")]
        ELSE << >>)

fetch_headers(folder, limit, envc, plan, ans, shape, bad) ==
    LET c == _ensure_connected(envc)
        sel == Cmd("SELECT", c, _quote_folder_name(folder), Ans(plan, 1))
        search == Cmd("SEARCH", c, << >>, Ans(plan, 2))
        \* SEARCH ALL answers with message sequence numbers
        ids == [i \in 1..Len(mailbox[folder].msgs) |-> i]
        uid_list == TakeLast(ids, limit)
    IN  IF c.raised # NoError THEN OpResult(c, << >>, c.raised, NoRet, mailbox)
        ELSE IF Ans(plan, 1) # "OK" THEN OpResult(c, << sel >>, OpErr, NoRet, mailbox)
        ELSE IF Ans(plan, 2) # "OK"
             THEN OpResult(c, << sel, search >>, OpErr, NoRet, mailbox)
        ELSE IF ids = << >> THEN OpResult(c, << sel, search >>, NoError, << >>, mailbox)
        ELSE OpResult(c, << sel, search >> \o FetchEvents(c, uid_list, ans, bad), NoError,
                      Reverse(_fetch_message_headers_batch(uid_list, mailbox[folder].msgs,
                                                           ans, shape, bad)),
                      mailbox)

-----------------------------------------------------------------------------
(* ImapClient.fetch_body *)

\* body: what the server holds for the message, usable: whether the reply
\* is a (metadata, bytes) tuple
fetch_body(folder, message_uid, envc, plan, usable) ==
    LET c == _ensure_connected(envc)
        sel == Cmd("SELECT", c, _quote_folder_name(folder), Ans(plan, 1))
        fetch == Cmd("FETCH", c, << message_uid >>, Ans(plan, 2))
        hit == SelectMsgs(mailbox[folder].msgs, {message_uid})
    IN  IF c.raised # NoError THEN OpResult(c, << >>, c.raised, NoRet, mailbox)
        ELSE IF Ans(plan, 1) # "OK" THEN OpResult(c, << sel >>, OpErr, NoRet, mailbox)
        ELSE IF Ans(plan, 2) # "OK" \/ hit = << >> \/ ~usable
             THEN OpResult(c, << sel, fetch >>, OpErr, NoRet, mailbox)
        ELSE OpResult(c, << sel, fetch >>, NoError, << hit[1].hdr >>, mailbox)

-----------------------------------------------------------------------------
(* The sessions the model constructs and the calls made on them *)

\* "a@b" and " a@b\t"
Emails == { << 97, 64, 98 >>, << 32, 97, 64, 98, 9 >> }

\* "T1"
Token == << 84, 49 >>
Bundle(p, tok, he, exp) ==
    [present |-> p, access_token |-> tok, has_expiry |-> he, expires_at |-> exp]
NoBundle == Bundle(FALSE, << >>, FALSE, 0)
Bundles == { NoBundle, Bundle(TRUE, << >>, FALSE, 0), Bundle(TRUE, Token, FALSE, 0),
             Bundle(TRUE, Token, TRUE, 1) }

\* None, "" and "pw"
NoPassword == [present |-> FALSE, value |-> << >>]
Passwords == { NoPassword, [present |-> TRUE, value |-> << >>],
               [present |-> TRUE, value |-> << 112, 119 >>] }

Msg(u, fl, h) == [uid |-> u, flags |-> fl, hdr |-> h]
Box(msgs, next) == [msgs |-> msgs, uidnext |-> next]

\* the one folder of a new account: no messages yet
SessionMailbox == (INBOX :> Box(<< >>, 1))

\* the credentials a session is constructed with: a bundle, a password,
\* neither, or both
Credentials ==
    { << b, NoPassword >> : b \in Bundles }
    \cup { << NoBundle, p >> : p \in Passwords }
    \cup { << Bundle(TRUE, Token, FALSE, 0), [present |-> TRUE, value |-> << 112, 119 >>] >> }

NotBuilt == [raised |-> NoError, bytes |-> << >>]
NotQuoted == [path |-> << >>, once |-> << >>, twice |-> << >>]
NotServed == [data |-> << >>, ans |-> "", shape |-> "", bad |-> {}]
NoArgs == [folder |-> << >>, dest |-> << >>, uid |-> 0, limit |-> 0]

Init ==
    /\ email \in Emails
    /\ \E cr \in Credentials : token_bundle = cr[1] /\ password = cr[2]
    /\ connection = None
    /\ authenticated = FALSE
    /\ now = 0
    /\ nextConn = 0
    /\ sockets = {}
    /\ op = "init"
    /\ wasReady = FALSE
    /\ raised = NoError
    /\ trace = << >>
    /\ returned = NoRet
    /\ mailbox = SessionMailbox
    /\ built = NotBuilt
    /\ quoted = NotQuoted
    /\ served = NotServed
    /\ before = SessionMailbox
    /\ args = NoArgs

\* the session and the record of the call after a call with result r
Called(name, r) ==
    /\ ~Ready => nextConn < MaxConns
    /\ connection' = r.connection
    /\ authenticated' = r.authenticated
    /\ nextConn' = r.nextConn
    /\ sockets' = r.sockets
    /\ op' = name
    /\ wasReady' = Ready
    /\ raised' = r.raised
    /\ trace' = r.events
    /\ before' = mailbox
    /\ UNCHANGED << email, token_bundle, password, now, built, quoted >>

\* the environment matters only when the call connects
AnyEnv == CHOOSE e \in ConnectEnvs : e.tls = "fail"
GuardEnvs == IF Ready THEN { AnyEnv } ELSE ConnectEnvs

\* the environments tried under a public operation that connects implicitly:
\* the TLS connect fails, the introspection rejects, or the introspection
\* request fails and AUTHENTICATE / LOGIN gets each of its answers
ImplicitEnvs ==
    { e \in ConnectEnvs :
        \/ e.tls = "fail"
        \/ e.info = [kind |-> "reply", error |-> TRUE, mail_scope |-> FALSE,
                     expires_in |-> 0, email |-> << 97, 64, 98 >>]
        \/ e.info.kind = "RequestException" }
OpEnvs == IF Ready THEN { AnyEnv } ELSE ImplicitEnvs

GuardFails(env) == _ensure_connected(env).raised # NoError

\* the inputs and answers of a call matter only when the guard lets it through
IfThrough(through, S) == IF through THEN S ELSE { CHOOSE x \in S : TRUE }

Connect ==
    \E env \in GuardEnvs :
        /\ Called("connect", _connect(env))
        /\ served' = NotServed
        /\ args' = NoArgs
        /\ UNCHANGED << returned, mailbox >>

Close ==
    \E ans \in (IF Ready THEN LogoutAnswers ELSE {"OK"}) :
        /\ Called("close", close(ans))
        /\ served' = NotServed
        /\ args' = NoArgs
        /\ UNCHANGED << returned, mailbox >>

\* time passes between calls; the record of the last call is dropped
Tick ==
    /\ now < MaxTime
    /\ now' = now + 1
    /\ op' = "tick"
    /\ wasReady' = Ready
    /\ raised' = NoError
    /\ trace' = << >>
    /\ returned' = NoRet
    /\ built' = NotBuilt
    /\ quoted' = NotQuoted
    /\ served' = NotServed
    /\ before' = mailbox
    /\ args' = NoArgs
    /\ UNCHANGED << email, token_bundle, password, connection, authenticated,
                    nextConn, sockets, mailbox >>

Applied(name, r) ==
    /\ Called(name, r)
    /\ returned' = r.ret
    /\ mailbox' = r.mailbox

\* LIST lines: (\Noselect) "/" "[Gmail]", NIL, and "/" "INBOX"
LineGmail == << 40, 92, 78, 111, 115, 101, 108, 101, 99, 116, 41, 32, 34, 47, 34, 32,
                34, 91, 71, 109, 97, 105, 108, 93, 34 >>
LineNil == << 78, 73, 76 >>
LineInbox == << 34, 47, 34, 32, 34, 73, 78, 66, 79, 88, 34 >>
ListData == { << >>, << LineInbox >>, << LineNil, LineInbox >>,
              << LineGmail, LineNil >>, << LineGmail, LineNil, LineInbox >> }

ListScenarios ==
    [ans : {"OK"}, data : ListData]
    \cup [ans : CmdAnswers \ {"OK"}, data : {<< >>}]

ListFolders ==
    \E env \in OpEnvs :
        LET through == ~GuardFails(env)
        IN
            \E sc \in IfThrough(through, ListScenarios) :
                /\ Applied("list_folders", list_folders(env, sc.ans, sc.data))
                /\ args' = NoArgs
                /\ served' = IF through /\ sc.ans = "OK"
                             THEN [NotServed EXCEPT !.data = sc.data, !.ans = "OK"]
                             ELSE NotServed

\* the UIDs a caller passes: those the folders have handed out, and the next
Uids == { u \in 1..MaxUid : \E f \in Folders : u <= mailbox[f].uidnext }
Limits == 0..MaxLimit
AllOK == [at |-> 0, how |-> "OK"]
FailingPlans(upto) == { p \in Plans : p.at >= 1 /\ p.at <= upto }

\* SELECT or SEARCH fails; or the batch FETCH is answered OK with data of
\* some shape; or it fails and some individual fetches fail too (no FETCH is
\* sent for a folder without messages)
FetchScenarios(folder) ==
    [plan : FailingPlans(2), ans : {"OK"}, shape : {"tuples"}, bad : {{}}]
    \cup [plan : {AllOK}, ans : {"OK"},
          shape : IF mailbox[folder].msgs = << >> THEN {"tuples"} ELSE Shapes, bad : {{}}]
    \cup [plan : {AllOK},
          ans : IF mailbox[folder].msgs = << >> THEN {} ELSE CmdAnswers \ {"OK"},
          shape : {"tuples"}, bad : SUBSET (1..Len(mailbox[folder].msgs))]

FetchHeaders ==
    \E env \in OpEnvs :
        LET through == ~GuardFails(env)
        IN
            \E folder \in IfThrough(through, Folders), limit \in IfThrough(through, Limits) :
                \E sc \in IfThrough(through, FetchScenarios(folder)) :
                    LET r == fetch_headers(folder, limit, env, sc.plan, sc.ans, sc.shape,
                                           sc.bad)
                    IN  /\ Applied("fetch_headers", r)
                        /\ args' = [NoArgs EXCEPT !.folder = folder, !.limit = limit]
                        /\ served' = IF \E i \in 1..Len(r.events) : r.events[i].kind = "FETCH"
                                     THEN [NotServed EXCEPT !.ans = sc.ans, !.shape = sc.shape,
                                                            !.bad = sc.bad]
                                     ELSE NotServed

BodyScenarios ==
    [plan : FailingPlans(2), usable : {TRUE}] \cup [plan : {AllOK}, usable : BOOLEAN]

FetchBody ==
    \E env \in OpEnvs :
        LET through == ~GuardFails(env)
        IN
            \E folder \in IfThrough(through, Folders), uid \in IfThrough(through, Uids) :
                \E sc \in IfThrough(through, BodyScenarios) :
                    /\ Applied("fetch_body", fetch_body(folder, uid, env, sc.plan, sc.usable))
                    /\ args' = [NoArgs EXCEPT !.folder = folder, !.uid = uid]
                    /\ served' = NotServed

MarkRead ==
    \E env \in OpEnvs :
        LET through == ~GuardFails(env)
        IN
            \E folder \in IfThrough(through, Folders), uid \in IfThrough(through, Uids) :
                \E plan \in IfThrough(through, {AllOK} \cup FailingPlans(2)) :
                    /\ Applied("mark_read", mark_read(folder, uid, env, plan))
                    /\ args' = [NoArgs EXCEPT !.folder = folder, !.uid = uid]
                    /\ served' = NotServed

MoveMessage ==
    \E env \in OpEnvs :
        LET through == ~GuardFails(env)
        IN
            \E src \in IfThrough(through, Folders), dest \in IfThrough(through, Folders),
               uid \in IfThrough(through, Uids) :
                \E plan \in IfThrough(through, {AllOK} \cup FailingPlans(4)) :
                    /\ mailbox[dest].uidnext <= MaxUid
                    /\ Applied("move_message", move_message(src, dest, uid, env, plan))
                    /\ args' = [NoArgs EXCEPT !.folder = src, !.dest = dest, !.uid = uid]
                    /\ served' = NotServed

Next ==
    \/ Connect
    \/ Close
    \/ Tick
    \/ ListFolders
    \/ FetchHeaders
    \/ FetchBody
    \/ MarkRead
    \/ MoveMessage

Spec == Init /\ [][Next]_vars

-----------------------------------------------------------------------------
(* A password session working on folders that hold messages *)

Flagged == "\\Flagged"

\* the folders whose messages have ascending UIDs from u up to MaxUid; the
\* header of a message is numbered after the UID it arrived with
RECURSIVE BoxesFrom(_)
BoxesFrom(u) ==
    IF u > MaxUid THEN { << >> }
    ELSE LET rest == BoxesFrom(u + 1)
         IN  rest \cup { << Msg(u, IF u = 1 THEN {Flagged} ELSE {}, u) >> \o r : r \in rest }

NextUid(msgs) == IF msgs = << >> THEN 1 ELSE msgs[Len(msgs)].uid + 1

InitMail ==
    /\ email = << 97, 64, 98 >>
    /\ token_bundle = NoBundle
    /\ password = [present |-> TRUE, value |-> << 112, 119 >>]
    /\ connection = None
    /\ authenticated = FALSE
    /\ now = 0
    /\ nextConn = 0
    /\ sockets = {}
    /\ op = "init"
    /\ wasReady = FALSE
    /\ raised = NoError
    /\ trace = << >>
    /\ returned = NoRet
    /\ \E msgs \in BoxesFrom(1) :
           mailbox = (INBOX :> Box(msgs, NextUid(msgs))) @@ (AllMail :> Box(<< >>, 1))
    /\ built = NotBuilt
    /\ quoted = NotQuoted
    /\ served = NotServed
    /\ before = mailbox
    /\ args = NoArgs

\* the caller is between two calls
Idle == op \in {"init", "tick"}

CallConnect == Idle /\ Connect
CallListFolders == Idle /\ ListFolders
CallFetchHeaders == Idle /\ FetchHeaders
CallFetchBody == Idle /\ FetchBody
CallMarkRead == Idle /\ MarkRead
CallMoveMessage == Idle /\ MoveMessage

NextMail ==
    \/ CallConnect
    \/ CallListFolders
    \/ CallFetchHeaders
    \/ CallFetchBody
    \/ CallMarkRead
    \/ CallMoveMessage
    \/ Tick

SpecMail == InitMail /\ [][NextMail]_vars

-----------------------------------------------------------------------------
(* Direct calls of the XOAUTH2 builder, on many account emails and tokens *)

\* space, tab, \x01, "a", "@" and e-acute
Alphabet == { 32, 9, 1, 97, 64, 233 }

RECURSIVE TextsUpTo(_)
TextsUpTo(n) ==
    IF n = 0 THEN { << >> }
    ELSE LET shorter == TextsUpTo(n - 1)
         IN  shorter \cup { Append(t, ch) : t \in shorter, ch \in Alphabet }

\* "a@b.com", " a@b.com\n", "T123"; the tokens also "", "T" e-acute, "T\x01"
ABCom == << 97, 64, 98, 46, 99, 111, 109 >>
T123 == << 84, 49, 50, 51 >>
BuildEmails == TextsUpTo(MaxEmailLen) \cup { ABCom, << 32 >> \o ABCom \o << 10 >> }
BuildTokens == { << >>, T123, << 84, 233 >>, << 84, 1 >> }
BuildBundles ==
    { NoBundle }
    \cup { Bundle(TRUE, tok, he, 1) : tok \in BuildTokens, he \in BOOLEAN }

InitBuild ==
    /\ email \in BuildEmails
    /\ token_bundle \in BuildBundles
    /\ password = NoPassword
    /\ connection = None
    /\ authenticated = FALSE
    /\ now = 0
    /\ nextConn = 0
    /\ sockets = {}
    /\ op = "init"
    /\ wasReady = FALSE
    /\ raised = NoError
    /\ trace = << >>
    /\ returned = NoRet
    /\ mailbox = SessionMailbox
    /\ built = NotBuilt
    /\ quoted = NotQuoted
    /\ served = NotServed
    /\ before = SessionMailbox
    /\ args = NoArgs

Build ==
    /\ built' = _build_xoauth2_bytes(token_bundle, email, now)
    /\ op' = "_build_xoauth2_bytes"
    /\ wasReady' = Ready
    /\ UNCHANGED << email, token_bundle, password, connection, authenticated, now,
                    nextConn, sockets, raised, trace, returned, mailbox, quoted,
                    served, before, args >>

NextBuild == Build \/ Tick

SpecBuild == InitBuild /\ [][NextBuild]_vars

-----------------------------------------------------------------------------
(* Direct calls of _quote_folder_name, on many folder paths *)

\* space, double quote, "/", "[", backslash, "]" and "a"
PathAlphabet == { 32, 34, 47, 91, 92, 93, 97 }

RECURSIVE PathsUpTo(_)
PathsUpTo(n) ==
    IF n = 0 THEN { << >> }
    ELSE LET shorter == PathsUpTo(n - 1)
         IN  shorter \cup { Append(t, ch) : t \in shorter, ch \in PathAlphabet }

QuotePaths == PathsUpTo(MaxPathLen) \cup { INBOX, AllMail }

InitQuote ==
    /\ email = << 97, 64, 98 >>
    /\ token_bundle = NoBundle
    /\ password = [present |-> TRUE, value |-> << 112, 119 >>]
    /\ connection = None
    /\ authenticated = FALSE
    /\ now = 0
    /\ nextConn = 0
    /\ sockets = {}
    /\ op = "init"
    /\ wasReady = FALSE
    /\ raised = NoError
    /\ trace = << >>
    /\ returned = NoRet
    /\ mailbox = SessionMailbox
    /\ built = NotBuilt
    /\ \E path \in QuotePaths : quoted = [NotQuoted EXCEPT !.path = path]
    /\ served = NotServed
    /\ before = SessionMailbox
    /\ args = NoArgs

\* quote the path, and quote the result once more
Quote ==
    /\ op = "init"
    /\ quoted' = [path |-> quoted.path,
                  once |-> _quote_folder_name(quoted.path),
                  twice |-> _quote_folder_name(_quote_folder_name(quoted.path))]
    /\ op' = "_quote_folder_name"
    /\ wasReady' = Ready
    /\ UNCHANGED << email, token_bundle, password, connection, authenticated, now,
                    nextConn, sockets, raised, trace, returned, mailbox, built,
                    served, before, args >>

NextQuote == Quote

SpecQuote == InitQuote /\ [][NextQuote]_vars

-----------------------------------------------------------------------------
(* Direct calls of _parse_folder_list_item, on many response lines *)

\* pieces of a quoted token: / x space =??q? =?x?q? ?=
TokenPieces == { << 47 >>, << 120 >>, << 32 >>, << 61, 63, 63, 113, 63 >>,
                 << 61, 63, 120, 63, 113, 63 >>, << 63, 61 >> }

RECURSIVE TokensUpTo(_)
TokensUpTo(n) ==
    IF n = 0 THEN { << >> }
    ELSE LET shorter == TokensUpTo(n - 1)
         IN  shorter \cup { t \o piece : t \in shorter, piece \in TokenPieces }

\* what stands before the token: nothing, "/" and a space, or x" and a space
LineHeads == { << >>, << 34, 47, 34, 32 >>, << 120, 34, 32 >> }
\* what stands after it: nothing, or one more quote and a space
LineTails == { << >>, << 34, 32 >> }

\* "=?utf-8?Q?x_=C3=A9?=" and "=??q?=C3?= =??q?=A9/x?="
LineUtf8 == << 34, 61, 63, 117, 116, 102, 45, 56, 63, 81, 63, 120, 95, 61, 67, 51, 61,
               65, 57, 63, 61, 34 >>
LineSplit == << 34, 61, 63, 63, 113, 63, 61, 67, 51, 63, 61, 32, 61, 63, 63, 113, 63,
                61, 65, 57, 47, 120, 63, 61, 34 >>

ListLines ==
    { head \o << 34 >> \o token \o << 34 >> \o tail :
        head \in LineHeads, token \in TokensUpTo(MaxSegs), tail \in LineTails }
    \cup { LineGmail, LineNil, LineInbox, LineUtf8, LineSplit, << 34 >>, << >> }

InitList ==
    /\ email = << 97, 64, 98 >>
    /\ token_bundle = NoBundle
    /\ password = [present |-> TRUE, value |-> << 112, 119 >>]
    /\ connection = None
    /\ authenticated = FALSE
    /\ now = 0
    /\ nextConn = 0
    /\ sockets = {}
    /\ op = "init"
    /\ wasReady = FALSE
    /\ raised = NoError
    /\ trace = << >>
    /\ returned = NoRet
    /\ mailbox = SessionMailbox
    /\ built = NotBuilt
    /\ quoted = NotQuoted
    /\ \E line \in ListLines : served = [NotServed EXCEPT !.data = << line >>]
    /\ before = SessionMailbox
    /\ args = NoArgs

\* parse the line
ParseItem ==
    /\ op = "init"
    /\ returned' = _parse_folder_list_item(served.data[1])
    /\ op' = "_parse_folder_list_item"
    /\ wasReady' = Ready
    /\ UNCHANGED << email, token_bundle, password, connection, authenticated, now,
                    nextConn, sockets, raised, trace, mailbox, built, quoted,
                    served, before, args >>

NextList == ParseItem

SpecList == InitList /\ [][NextList]_vars

-----------------------------------------------------------------------------
(* What the claims speak of *)

PublicOps == {"list_folders", "fetch_headers", "fetch_body", "mark_read", "move_message"}
ConnectKinds == {"TLS", "TOKENINFO", "SASL", "LOGIN"}
CommandKinds == {"LIST", "SELECT", "SEARCH", "FETCH", "STORE", "COPY", "EXPUNGE"}

Issued(kinds) == \E i \in 1..Len(trace) : trace[i].kind \in kinds

\* the session was not Ready when the last call started, and the call connected
Connecting == op \in PublicOps \cup {"connect"} /\ ~wasReady

\* the stored expiry is at or before the current time
ExpiryElapsed == token_bundle.has_expiry /\ token_bundle.expires_at <= now

-----------------------------------------------------------------------------
(* C1 *)

\* C1: for an OAuth session whose token has expires_at at or before the
\* current time, connect() fails with an Authentication error and no network
\* call (TLS connect, introspection request, SASL exchange) is issued.
C1_ExpiredTokenNoNetworkCall ==
    (op = "connect" /\ ~wasReady /\ token_bundle.present
        /\ token_bundle.access_token # << >> /\ ExpiryElapsed)
    => (raised = AuthErr /\ trace = << >>)

-----------------------------------------------------------------------------
(* C2 *)

\* C2: for a session constructed with neither a token bundle nor a password,
\* connect() and every operation that connects implicitly fail with an
\* Authentication error and open no TLS connection.
C2_NoCredentialsNoNetworkAttempt ==
    (Connecting /\ ~token_bundle.present /\ ~password.present)
    => (raised = AuthErr /\ ~Issued({"TLS"}))

-----------------------------------------------------------------------------
(* C3 *)

\* C3: after close() returns, from every state, the session holds no
\* connection and is not marked authenticated.
C3_CloseAlwaysClears ==
    op = "close" => (connection = None /\ ~authenticated)

-----------------------------------------------------------------------------
(* C4 *)

\* the last call opened a TLS connection and then failed: it failed while
\* authenticating
FailedAuthenticating ==
    /\ op = "connect"
    /\ raised # NoError
    /\ \E i \in 1..Len(trace) : trace[i].kind = "TLS" /\ trace[i].ans = "ok"

\* C4: whenever connect() fails during authentication the session ends
\* Disconnected: no open connection held, not marked authenticated.
C4_FailedConnectDisconnected ==
    FailedAuthenticating => (connection = None /\ ~authenticated)

-----------------------------------------------------------------------------
(* C5 *)

LogoutFailed ==
    \E i \in 1..Len(trace) : trace[i].kind = "LOGOUT" /\ trace[i].ans # "OK"

\* C5: close() never propagates an error; a LOGOUT is issued only when the
\* session is Ready, and when that LOGOUT fails the failure is swallowed and
\* the session still ends with no connection and not authenticated.
C5_CloseSwallowsLogoutFailure ==
    op = "close" =>
        /\ raised = NoError
        /\ Issued({"LOGOUT"}) => wasReady
        /\ LogoutFailed => (connection = None /\ ~authenticated)

C5_Witness ==
    op = "close" /\ wasReady /\ LogoutFailed /\ connection = None /\ ~authenticated

-----------------------------------------------------------------------------
(* C6 *)

\* a step that is a call on the session other than close()
CallNotClose == op' \in PublicOps \cup {"connect"}

\* C6: once the session is Ready, every further connect() and every public
\* operation reuses the same connection: the connection and the Ready state
\* are kept, no TLS connection is opened, nothing authenticates, and every
\* command goes to that connection.
C6_ReadySessionReused ==
    [][ (Ready /\ CallNotClose) =>
            /\ connection' = connection
            /\ authenticated'
            /\ nextConn' = nextConn
            /\ \A i \in 1..Len(trace') :
                   trace'[i].kind \notin ConnectKinds /\ trace'[i].conn = connection ]_vars

C6_Witness ==
    wasReady /\ op = "move_message" /\ raised = NoError /\ Len(trace) = 4 /\ Ready

-----------------------------------------------------------------------------
(* C7 *)

\* C7: no command is ever sent on a session that is not Ready; a public
\* operation on a non-Ready session connects first, and when that connect
\* fails it fails with the Connection or Authentication error and sends no
\* command.
C7_NoCommandUnlessReady ==
    /\ \A i \in 1..Len(trace) :
           trace[i].kind \in CommandKinds => (trace[i].ready /\ trace[i].conn # None)
    /\ (op \in PublicOps /\ ~wasReady) =>
           /\ trace # << >>
           /\ trace[1].kind = "TLS"
           /\ ~Ready => (raised \in {ConnErr, AuthErr} /\ ~Issued(CommandKinds))
           /\ Ready => \E i \in 1..Len(trace) : trace[i].kind \in {"SASL", "LOGIN"}

C7_Witness ==
    /\ op = "list_folders" /\ ~wasReady /\ raised = AuthErr
    /\ connection # None /\ ~Issued(CommandKinds)

-----------------------------------------------------------------------------
(* C8 *)

CheckFailed(r) == r.kind \in {"RequestException", "unusable"}
CheckRejects(r) == r.kind = "reply" /\ (r.error \/ ~r.mail_scope)
CheckConfirms(r) ==
    r.kind = "reply" /\ ~r.error /\ r.mail_scope /\ r.expires_in > 0

\* C8: on the OAuth path, when the introspection check itself fails the SASL
\* exchange is still attempted; when it returns an error or no mail scope,
\* connect() fails with an Authentication error and no SASL exchange is
\* attempted; when it confirms the token the SASL exchange is attempted.
C8_ThreeOutcomes ==
    \A i \in 1..Len(trace) :
        (op = "connect" /\ trace[i].kind = "TOKENINFO") =>
            /\ CheckFailed(trace[i].reply) => Issued({"SASL"})
            /\ CheckRejects(trace[i].reply) => (raised = AuthErr /\ ~Issued({"SASL"}))
            /\ CheckConfirms(trace[i].reply) => Issued({"SASL"})

-----------------------------------------------------------------------------
(* C9 *)

\* C9: on the password path every login that does not succeed, whether the
\* rejection arrives as a non-OK status or as a protocol error raised by the
\* transport, makes connect() fail with an Authentication error.
C9_LoginFailureIsAuthError ==
    \A i \in 1..Len(trace) :
        (op = "connect" /\ trace[i].kind = "LOGIN"
            /\ trace[i].ans \in {"NO", "IMAP4.error"})
        => raised = AuthErr

-----------------------------------------------------------------------------
(* C10 *)

\* core is addr without its leading and trailing whitespace
IsStrippedOf(core, addr) ==
    \E i \in 0..Len(addr), j \in 0..Len(addr) :
        /\ i <= j
        /\ core = SubSeq(addr, i + 1, j)
        /\ \A k \in 1..i : IsSpace(addr[k])
        /\ \A k \in (j + 1)..Len(addr) : IsSpace(addr[k])
        /\ core # << >> => (~IsSpace(core[1]) /\ ~IsSpace(core[Len(core)]))

\* the bytes of user=a@b.com\x01auth=Bearer T123\x01\x01
ABComT123 ==
    << 117, 115, 101, 114, 61, 97, 64, 98, 46, 99, 111, 109, 1, 97, 117, 116, 104, 61,
       66, 101, 97, 114, 101, 114, 32, 84, 49, 50, 51, 1, 1 >>

BuiltFromUsableToken ==
    /\ op = "_build_xoauth2_bytes"
    /\ token_bundle.present
    /\ token_bundle.access_token # << >>
    /\ ~ExpiryElapsed

\* C10: for every account email and every non-empty, unexpired access token
\* the builder returns exactly the UTF-8 bytes of
\* user=<email stripped>\x01auth=Bearer <token>\x01\x01, with no further
\* encoding; a@b.com and T123 give user=a@b.com\x01auth=Bearer T123\x01\x01.
C10_BuilderPayload ==
    BuiltFromUsableToken =>
        /\ built.raised = NoError
        /\ \E core \in { SubSeq(email, i, j) : i \in 1..(Len(email) + 1),
                                               j \in 0..Len(email) } :
               /\ IsStrippedOf(core, email)
               /\ built.bytes = encode_utf8(<< 117, 115, 101, 114, 61 >> \o core
                                    \o << 1, 97, 117, 116, 104, 61, 66, 101, 97, 114,
                                          101, 114, 32 >>
                                    \o token_bundle.access_token \o << 1, 1 >>)
        /\ (email \in { ABCom, << 32 >> \o ABCom \o << 10 >> }
                /\ token_bundle.access_token = T123)
           => built.bytes = ABComT123

C10_Witness ==
    /\ BuiltFromUsableToken
    /\ email = << 32 >> \o ABCom \o << 10 >>
    /\ token_bundle.access_token = T123
    /\ built.bytes = ABComT123

-----------------------------------------------------------------------------
(* C11 *)

HasBracketOrSpace(p) == Has(p, 32) \/ Has(p, 91) \/ Has(p, 93)

\* q begins and ends with a double quote, and every double quote strictly
\* inside it has a backslash, itself strictly inside, right before it
LegalQuoted(q) ==
    /\ Len(q) >= 2
    /\ q[1] = 34
    /\ q[Len(q)] = 34
    /\ \A i \in 2..(Len(q) - 1) : q[i] = 34 => (i > 2 /\ q[i - 1] = 92)

\* C11: for every folder path containing a space or a bracket, quoting the
\* quoted path gives the quoted path again, and the quoted path begins and
\* ends with a double quote with every double quote strictly inside it
\* escaped by a backslash.
C11_QuoteIdempotentLegal ==
    (op = "_quote_folder_name" /\ HasBracketOrSpace(quoted.path))
    => (quoted.twice = quoted.once /\ LegalQuoted(quoted.once))

-----------------------------------------------------------------------------
(* C12 *)

AlreadyQuoted(p) == p # << >> /\ p[1] = 34 /\ p[Len(p)] = 34

\* e with every backslash-escaped double quote replaced by the double quote
RECURSIVE Unescape(_)
Unescape(e) ==
    IF e = << >> THEN << >>
    ELSE IF Len(e) >= 2 /\ e[1] = 92 /\ e[2] = 34
         THEN << 34 >> \o Unescape(SubSeq(e, 3, Len(e)))
         ELSE << Head(e) >> \o Unescape(Tail(e))

\* q is p wrapped in double quotes with the double quotes of p escaped
WrappedEscaped(q, p) ==
    /\ LegalQuoted(q)
    /\ Len(q) = Len(p) + 2 + Cardinality({ i \in 1..Len(p) : p[i] = 34 })
    /\ Unescape(SubSeq(q, 2, Len(q) - 1)) = p

\* "[Gmail]/All Mail" between double quotes
QuotedAllMail == << 34 >> \o AllMail \o << 34 >>

\* C12: for every folder path that is not already quoted, the quoting
\* function returns the path wrapped in double quotes with embedded quotes
\* escaped when the path contains a space, "[", "]" or "/", and the path
\* unchanged otherwise; [Gmail]/All Mail becomes "[Gmail]/All Mail".
C12_QuotesWhenNeeded ==
    (op = "_quote_folder_name" /\ ~AlreadyQuoted(quoted.path))
    => /\ IF HasBracketOrSpace(quoted.path) \/ Has(quoted.path, 47)
          THEN WrappedEscaped(quoted.once, quoted.path)
          ELSE quoted.once = quoted.path
       /\ quoted.path = AllMail => quoted.once = QuotedAllMail

-----------------------------------------------------------------------------
(* C13 *)

Min(a, b) == IF a <= b THEN a ELSE b

\* the last call was fetch_headers and it returned a list
FetchedHeaders == op = "fetch_headers" /\ raised = NoError

\* the messages of the folder that call was about, when it started
FolderMsgs == before[args.folder].msgs

\* C13: for every folder whose search result is a non-empty id list and every
\* limit N >= 0, N = 0 included, fetch_headers(folder, limit=N) returns at most
\* min(N, number of ids) messages.
C13_AtMostLimitMessages ==
    (FetchedHeaders /\ FolderMsgs # << >>)
    => Len(returned) <= Min(args.limit, Len(FolderMsgs))

-----------------------------------------------------------------------------
(* C14 *)

\* the batch FETCH was answered OK with well-formed (metadata, header) tuples
WellFormedBatch == served.ans = "OK" /\ served.shape = "tuples"

\* q lists, in descending order, the k highest of the UIDs U
HighestDescending(q, U, k) ==
    /\ Len(q) = Min(k, Cardinality(U))
    /\ \A i \in 1..Len(q) : q[i] \in U
    /\ \A i \in 1..Len(q) : \A j \in 1..Len(q) : i < j => q[i] > q[j]
    /\ \A u \in U : (\A i \in 1..Len(q) : q[i] # u) => (\A i \in 1..Len(q) : u < q[i])

\* C14: fetch_headers(folder, limit), limit >= 1, returns the messages holding
\* the `limit` highest UIDs of the folder, in descending UID order, whatever
\* the UIDs of the folder are (they need not be the sequence numbers).
C14_HighestUidsDescending ==
    (FetchedHeaders /\ args.limit >= 1 /\ (FolderMsgs = << >> \/ WellFormedBatch))
    => /\ HighestDescending([i \in 1..Len(returned) |-> returned[i].uid_on_server],
                            { FolderMsgs[i].uid : i \in 1..Len(FolderMsgs) }, args.limit)
       /\ \A i \in 1..Len(returned) : \E j \in 1..Len(FolderMsgs) :
              /\ FolderMsgs[j].uid = returned[i].uid_on_server
              /\ FolderMsgs[j].hdr = returned[i].hdr
              /\ FolderMsgs[j].flags = returned[i].flags

-----------------------------------------------------------------------------
(* C15 *)

\* the batch FETCH was answered OK with data that holds neither tuples nor
\* pairs of byte strings
MalformedBatch == served.ans = "OK" /\ served.shape = "none"

\* the ids the batch FETCH asked for
AskedIds == LET i == CHOOSE k \in 1..Len(trace) : trace[k].kind = "FETCH"
            IN  trace[i].payload

FetchesIssued == Cardinality({ i \in 1..Len(trace) : trace[i].kind = "FETCH" })

\* C15: when the combined header+flags fetch is answered with data of a shape
\* that cannot be parsed, fetch_headers fetches each UID on its own and
\* returns the messages (UIDs, headers, flags) a well-formed batch response
\* would have produced for the same folder.
C15_MalformedBatchFallsBack ==
    (FetchedHeaders /\ MalformedBatch)
    => /\ FetchesIssued = 1 + Len(AskedIds)
       /\ returned = Reverse(_fetch_message_headers_batch(AskedIds, FolderMsgs, "OK",
                                                          "tuples", {}))

-----------------------------------------------------------------------------
(* C16 *)

MoveOrder == << "SELECT", "COPY", "STORE", "EXPUNGE" >>

\* the commands of the last call, without the events of an implicit connect
Commands == SelectSeq(trace, LAMBDA e : e.kind \in CommandKinds)

\* the last call was move_message and its k-th command was not answered OK
MoveFailedAt(k) ==
    /\ op = "move_message"
    /\ Len(Commands) = k
    /\ Commands[k].ans # "OK"

\* the messages of folder f in mailbox state mb that hold UID u
Holding(mb, f, u) == { i \in 1..Len(mb[f].msgs) : mb[f].msgs[i].uid = u }

\* folder f of mailbox holds a message with header h that it did not hold
\* when the call started
NewCopyIn(f, h) ==
    \E i \in 1..Len(mailbox[f].msgs) :
        /\ mailbox[f].msgs[i].hdr = h
        /\ mailbox[f].msgs[i].uid >= before[f].uidnext

\* C16: move_message(src, dest, uid) issues SELECT src, UID COPY to dest, UID
\* STORE and EXPUNGE in that order; when a step is answered non-OK or raises,
\* the call fails with an Operation error and no later or compensating command
\* is sent: a failed copy leaves the folders as they were, a failed expunge
\* leaves the message flagged \Deleted in src with its copy in dest.
C16_MoveStepsInOrder ==
    (op = "move_message" /\ raised \notin {ConnErr, AuthErr}) =>
        /\ Len(Commands) \in 1..4
        /\ \A k \in 1..Len(Commands) :
               /\ Commands[k].kind = MoveOrder[k]
               /\ k < Len(Commands) => Commands[k].ans = "OK"
        /\ Commands[1].payload = _quote_folder_name(args.folder)
        /\ Len(Commands) >= 2 => Commands[2].payload = _quote_folder_name(args.dest)
        /\ Len(Commands) >= 3 => Commands[3].payload = << args.uid >>
        /\ raised = (IF Commands[Len(Commands)].ans = "OK" THEN NoError ELSE OpErr)
        /\ raised = NoError => Len(Commands) = 4
        /\ (MoveFailedAt(1) \/ MoveFailedAt(2)) => mailbox = before
        /\ MoveFailedAt(4) =>
               \A i \in Holding(before, args.folder, args.uid) :
                   /\ \E j \in Holding(mailbox, args.folder, args.uid) :
                          /\ Deleted \in mailbox[args.folder].msgs[j].flags
                          /\ mailbox[args.folder].msgs[j].hdr
                                 = before[args.folder].msgs[i].hdr
                   /\ NewCopyIn(args.dest, before[args.folder].msgs[i].hdr)

C16_Witness ==
    /\ MoveFailedAt(4)
    /\ raised = OpErr
    /\ args.folder # args.dest
    /\ Holding(before, args.folder, args.uid) # {}
    /\ \A i \in Holding(before, args.folder, args.uid) :
           Deleted \notin before[args.folder].msgs[i].flags

-----------------------------------------------------------------------------
(* C17 *)

\* C17: after a successful move_message(src, dest, uid) where src held a
\* message with that UID, no message of src has the UID any more and dest
\* holds a message with the headers of the moved one.
C17_MovedMessageInDest ==
    (op = "move_message" /\ raised = NoError)
    => \A i \in Holding(before, args.folder, args.uid) :
           /\ Holding(mailbox, args.folder, args.uid) = {}
           /\ \E j \in 1..Len(mailbox[args.dest].msgs) :
                  mailbox[args.dest].msgs[j].hdr = before[args.folder].msgs[i].hdr

-----------------------------------------------------------------------------
(* C18 *)

ImapErrors == {ConnErr, AuthErr, OpErr}

\* the commands the last call depends on: every command but the header
\* fetches of fetch_headers
DependedOn ==
    {"LIST", "SELECT", "SEARCH", "STORE", "COPY", "EXPUNGE"}
    \cup (IF op = "fetch_body" THEN {"FETCH"} ELSE {})

\* one of those commands returned a non-success status or raised
DependedOnFailed ==
    \E i \in 1..Len(trace) : trace[i].kind \in DependedOn /\ trace[i].ans # "OK"

\* C18: every failure of list_folders, fetch_headers, fetch_body, mark_read
\* or move_message reaches the caller as a Connection, Authentication or
\* Operation error, and none of them returns normally after a command it
\* depends on (LIST, SELECT, SEARCH, body FETCH, STORE, COPY, EXPUNGE) was not
\* answered with success.
C18_FailuresAreImapErrors ==
    op \in PublicOps =>
        /\ raised # NoError => raised \in ImapErrors
        /\ DependedOnFailed => raised = OpErr
        /\ (~wasReady /\ ~Ready) => raised \in {ConnErr, AuthErr}

C18_Witness ==
    /\ op = "fetch_body"
    /\ raised = OpErr
    /\ \E i \in 1..Len(trace) : trace[i].kind = "FETCH" /\ trace[i].ans = "OSError"

-----------------------------------------------------------------------------
(* C19 *)

\* the message as it is once \Seen has been added to its flags
WithSeen(m) == [m EXCEPT !.flags = @ \cup {Seen}]

\* the last call, a mark_read, had SELECT or the STORE not answered OK
MarkFailed ==
    \E i \in 1..Len(trace) : trace[i].kind \in {"SELECT", "STORE"} /\ trace[i].ans # "OK"

\* C19: after a successful mark_read(folder, uid) the message with that UID
\* in that folder carries \Seen, its other flags and every other message are
\* as before, and a repeated call changes nothing; when SELECT or the STORE is
\* answered non-OK the call fails with an Operation error.
C19_MarkReadAddsSeenOnly ==
    op = "mark_read" =>
        /\ raised = NoError =>
               /\ DOMAIN mailbox = DOMAIN before
               /\ \A f \in DOMAIN before :
                      /\ mailbox[f].uidnext = before[f].uidnext
                      /\ Len(mailbox[f].msgs) = Len(before[f].msgs)
                      /\ \A i \in 1..Len(before[f].msgs) :
                             mailbox[f].msgs[i] =
                                 IF f = args.folder /\ before[f].msgs[i].uid = args.uid
                                 THEN WithSeen(before[f].msgs[i])
                                 ELSE before[f].msgs[i]
               /\ (\A i \in Holding(before, args.folder, args.uid) :
                       Seen \in before[args.folder].msgs[i].flags) => mailbox = before
        /\ MarkFailed => (raised = OpErr /\ mailbox = before)

\* a second mark_read of a message that carries another flag too, with
\* another message in the folder
C19_Witness ==
    /\ op = "mark_read"
    /\ raised = NoError
    /\ Len(before[args.folder].msgs) = 2
    /\ \E i \in Holding(before, args.folder, args.uid) :
           /\ before[args.folder].msgs[i].flags = {Flagged, Seen}
           /\ mailbox[args.folder].msgs[i].flags = {Flagged, Seen}

-----------------------------------------------------------------------------
(* C20 *)

\* the line holds a double-quoted token
HasQuotedToken(line) ==
    \E i \in 1..Len(line) : \E j \in 1..Len(line) : i < j /\ line[i] = 34 /\ line[j] = 34

\* the last call was list_folders and it got as far as sending LIST
Listed == op = "list_folders" /\ Issued({"LIST"})

\* C20: list_folders returns, in server order, exactly one Folder per response
\* line that parses and leaves out every line that does not; it fails, with an
\* Operation error, only when the LIST command is answered non-OK or raises.
C20_ListSkipsUnparseableLines ==
    Listed =>
        LET parsing == SelectSeq(served.data, HasQuotedToken)
        IN  /\ raised = (IF DependedOnFailed THEN OpErr ELSE NoError)
            /\ raised = NoError =>
                   /\ Len(returned) = Len(parsing)
                   /\ \A k \in 1..Len(parsing) :
                          << returned[k] >> = _parse_folder_list_item(parsing[k])

C20_Witness ==
    /\ Listed
    /\ raised = NoError
    /\ served.data = << LineGmail, LineNil, LineInbox >>
    /\ Len(returned) = 2
    /\ returned[2].server_path = INBOX

-----------------------------------------------------------------------------
(* C21 *)

\* the places of the double quotes of a line, and the n-th of them
QuotePlaces(line) == { i \in 1..Len(line) : line[i] = 34 }
NthQuote(line, n) ==
    CHOOSE i \in QuotePlaces(line) :
        Cardinality({ j \in QuotePlaces(line) : j <= i }) = n

\* the quotes pair up from the left; the last quoted token stands between
\* the two quotes of the last pair
LastQuotedToken(line) ==
    LET pairs == Cardinality(QuotePlaces(line)) \div 2
    IN  SubSeq(line, NthQuote(line, 2 * pairs - 1) + 1, NthQuote(line, 2 * pairs) - 1)

\* name is what follows the last '/' of path, or all of path when it has none
AfterLastSlash(name, path) ==
    /\ ~Has(name, 47)
    /\ \E k \in 0..Len(path) :
          /\ name = SubSeq(path, k + 1, Len(path))
          /\ k = 0 \/ path[k] = 47

ParsedLine == op = "_parse_folder_list_item" /\ HasQuotedToken(served.data[1])

\* C21: for every folder-list response line with at least one double-quoted
\* token, the parsed Folder's server path is the last quoted token after
\* header decoding, and its display name is the part of that path after the
\* last '/', or the whole path when it holds no '/'.
C21_PathIsLastQuotedToken ==
    ParsedLine =>
        /\ Len(returned) = 1
        /\ returned[1].server_path = DecodedPath(LastQuotedToken(served.data[1]))
        /\ AfterLastSlash(returned[1].name, returned[1].server_path)

\* a line whose last token holds an encoded word and decodes to a path with
\* a '/' before its last segment
C21_Witness ==
    /\ ParsedLine
    /\ returned[1].server_path # LastQuotedToken(served.data[1])
    /\ Has(returned[1].server_path, 47)
    /\ returned[1].name # << >>
    /\ Cardinality(QuotePlaces(served.data[1])) > 2

-----------------------------------------------------------------------------
(* C22 *)

\* the number of fields bytes.split(b'\x01') gives
FieldsOf(bytes) == Cardinality({ i \in 1..Len(bytes) : bytes[i] = 1 }) + 1

\* C22: the builder never returns a payload that splits on \x01 into a number
\* of fields other than four: when the stripped email or the access token
\* holds a \x01 character it fails with an error and returns no payload.
C22_FourFieldsOrError ==
    op = "_build_xoauth2_bytes" =>
        /\ built.raised = NoError => FieldsOf(built.bytes) = 4
        /\ (token_bundle.present
                /\ (Has(strip(email), 1) \/ Has(token_bundle.access_token, 1)))
           => built.raised # NoError

-----------------------------------------------------------------------------
(* C23 *)

\* the last call was fetch_headers and its batch FETCH was answered non-OK
\* or raised
BatchFailed == op = "fetch_headers" /\ FetchesIssued >= 1 /\ served.ans # "OK"

\* the FETCH commands of the last call, in the order they were sent
FetchTrace ==
    LET IsFetch(e) == e.kind = "FETCH"
    IN  SelectSeq(trace, IsFetch)

\* the asked ids whose own fetch succeeds and gives a message that parses
Fetchable ==
    { u \in SeqToSet(AskedIds) :
        u \notin served.bad /\ \E j \in 1..Len(FolderMsgs) : FolderMsgs[j].uid = u }

\* C23: if the combined header+flags fetch returns a non-OK status or raises,
\* fetch_headers does not fail: it issues one header+flags fetch per selected
\* UID, skips every UID whose own fetch fails or does not parse, and returns
\* the remaining messages newest-first.
C23_FailedBatchFallsBack ==
    BatchFailed =>
        /\ raised = NoError
        /\ Len(FetchTrace) = 1 + Len(AskedIds)
        /\ \A i \in 1..Len(AskedIds) : FetchTrace[i + 1].payload = << AskedIds[i] >>
        /\ { returned[i].uid_on_server : i \in 1..Len(returned) } = Fetchable
        /\ \A i \in 1..Len(returned) : \A j \in 1..Len(returned) :
               i < j => returned[i].uid_on_server > returned[j].uid_on_server
        /\ \A i \in 1..Len(returned) : \E j \in 1..Len(FolderMsgs) :
               /\ FolderMsgs[j].uid = returned[i].uid_on_server
               /\ FolderMsgs[j].hdr = returned[i].hdr
               /\ FolderMsgs[j].flags = returned[i].flags

\* the fetch of a lower UID fails and the message of a higher one is returned
C23_Witness ==
    /\ BatchFailed
    /\ returned # << >>
    /\ \E u \in SeqToSet(AskedIds) :
           u \in served.bad /\ u < returned[1].uid_on_server

-----------------------------------------------------------------------------
(* C24 *)

\* the batch FETCH was answered OK with (metadata, header) pairs, as tuples
\* or as a flat list of byte strings, with or without the closing item that
\* follows a pair
PairedBatch == served.ans = "OK" /\ served.shape \in {"tuples", "flat", "flat_close"}

\* the messages the response holds a well-formed pair for, in response order
PairsSent == SelectMsgs(FolderMsgs, SeqToSet(AskedIds))

\* C24: for a batch response in the tuple-paired or in the flat shape the
\* batch parser returns one message for every well-formed (metadata, header)
\* pair, in response order; an item that does not parse, or a stray item
\* between two pairs, is skipped without raising and without the loss of a
\* well-formed pair that follows it.
C24_OneMessagePerPair ==
    (FetchedHeaders /\ FetchesIssued >= 1 /\ PairedBatch)
    => /\ Len(returned) = Len(PairsSent)
       /\ \A i \in 1..Len(returned) :
              LET sent == PairsSent[Len(PairsSent) + 1 - i]
              IN  /\ returned[i].uid_on_server = sent.uid
                  /\ returned[i].hdr = sent.hdr
                  /\ returned[i].flags = sent.flags

-----------------------------------------------------------------------------
(* C25 *)

\* the introspection of the last call answered with an owner email that is
\* not, case aside, the stripped account email
OwnerDiffers(k) ==
    /\ trace[k].kind = "TOKENINFO"
    /\ trace[k].reply.kind = "reply"
    /\ Lower(strip(trace[k].reply.email)) # Lower(strip(email))

\* C25: when the token-introspection check reports an owner email that
\* differs (case-insensitively) from the stripped account email, the SASL
\* payload sent in the XOAUTH2 exchange carries the token's own email in its
\* user= field, not the account email.
C25_PayloadCarriesTokenEmail ==
    \A k \in 1..Len(trace) : \A i \in 1..Len(trace) :
        (OwnerDiffers(k) /\ trace[i].kind = "SASL")
        => trace[i].payload =
               encode_utf8(UserEq \o strip(trace[k].reply.email) \o AuthBearer
                           \o token_bundle.access_token \o Trailer)

-----------------------------------------------------------------------------
(* C26 *)

\* the link failed under command i of the last call, sent by a Ready session
LinkFailedAt(i) ==
    trace[i].kind \in CommandKinds /\ trace[i].ready /\ trace[i].ans = "OSError"

\* C26: when the socket/TLS link of a Ready session fails while a public
\* operation is sending a command, that operation fails with a Connection
\* error.
C26_LinkFailureIsConnectionError ==
    op \in PublicOps =>
        \A i \in 1..Len(trace) : LinkFailedAt(i) => raised = ConnErr

-----------------------------------------------------------------------------
(* C27 *)

\* the messages src held flagged \Deleted when the last call started, other
\* than the message the call was to move
DeletedBystanders ==
    { i \in 1..Len(before[args.folder].msgs) :
        /\ Deleted \in before[args.folder].msgs[i].flags
        /\ before[args.folder].msgs[i].uid # args.uid }

\* the number of messages the last call added to its destination folder
CopiesMade == mailbox[args.dest].uidnext - before[args.dest].uidnext

\* C27: the EXPUNGE step of move_message(src, dest, uid) removes every
\* message of src that carries the \Deleted flag at that moment, not only the
\* moved one: a message of src flagged \Deleted before the call is gone after
\* a successful move, although it was never copied to dest.
C27_ExpungeRemovesAllDeleted ==
    (op = "move_message" /\ raised = NoError) =>
        /\ \A j \in 1..Len(mailbox[args.folder].msgs) :
               Deleted \notin mailbox[args.folder].msgs[j].flags
        /\ \A i \in DeletedBystanders :
               Holding(mailbox, args.folder, before[args.folder].msgs[i].uid) = {}
        /\ CopiesMade = Cardinality(Holding(before, args.folder, args.uid))

\* a successful move between two folders of a message that was in src, with
\* another message of src flagged \Deleted before the call
C27_Witness ==
    /\ op = "move_message"
    /\ raised = NoError
    /\ args.folder # args.dest
    /\ Holding(before, args.folder, args.uid) # {}
    /\ DeletedBystanders # {}

-----------------------------------------------------------------------------
(* C28 *)

\* a failed authentication left its connection in the session
Stale == connection # None /\ ~authenticated

\* a call that connects after a failed authentication starts with a new TLS
\* connect and sends nothing on the connection the failed attempt left;
\* where the TLS connect succeeds, the session holds the new connection
RetryOpensFresh ==
    (Stale /\ op' \in PublicOps \cup {"connect"}) =>
        /\ trace' # << >>
        /\ trace'[1].kind = "TLS"
        /\ \A i \in 1..Len(trace') : trace'[i].conn # connection
        /\ trace'[1].ans = "ok" =>
               /\ connection' = trace'[1].conn
               /\ connection' \notin sockets
               /\ connection' # connection

\* no step logs out or closes a connection other than the one of a Ready
\* session
OnlyReadyIsClosed ==
    \A c \in sockets :
        (c # connection \/ ~authenticated) =>
            /\ c \in sockets'
            /\ \A i \in 1..Len(trace') :
                   trace'[i].kind = "LOGOUT" => trace'[i].conn # c

\* C28: a connect() that follows a failed authentication always opens a fresh
\* TLS connection and overwrites the session's connection reference; the
\* connection the failed attempt opened is never logged out or closed by the
\* session, not at the failure, not on the retry and not by close().
C28_FailedAttemptLeaksConnection == [][RetryOpensFresh /\ OnlyReadyIsClosed]_vars

\* the first attempt failed, the retry opened a second connection, and
\* close() shut that one: the first is still open
C28_Witness ==
    /\ op = "close"
    /\ connection = None
    /\ nextConn = 2
    /\ sockets = {1}

-----------------------------------------------------------------------------
(* C29 *)

\* a command of the step's call was answered non-OK or raised
CommandFails ==
    \E i \in 1..Len(trace') : trace'[i].kind \in CommandKinds /\ trace'[i].ans # "OK"

\* the session is as it was: Ready, with the same connection, nothing opened
\* and nothing shut
SessionKept ==
    /\ connection' = connection
    /\ authenticated'
    /\ nextConn' = nextConn
    /\ sockets' = sockets

\* C29: a failure of any command inside a public operation on a Ready session
\* never changes the session state: the session stays Ready with the same
\* connection, so after a dropped link every later operation sends its
\* commands to the dead connection, and nothing reconnects until close() is
\* called.
C29_CommandFailureKeepsSession ==
    [][ /\ (Ready /\ op' \in PublicOps /\ CommandFails) => SessionKept
        /\ (Ready /\ op' # "close") =>
               /\ SessionKept
               /\ \A i \in 1..Len(trace') :
                      trace'[i].kind \in CommandKinds /\ trace'[i].conn = connection
      ]_vars

\* an operation on a Ready session whose command met a dropped link, and the
\* session is Ready with that connection afterwards
C29_Witness ==
    /\ op \in PublicOps
    /\ wasReady
    /\ Ready
    /\ raised = OpErr
    /\ \E i \in 1..Len(trace) :
           /\ trace[i].kind \in CommandKinds
           /\ trace[i].ans = "OSError"
           /\ trace[i].conn = connection

-----------------------------------------------------------------------------
(* C30 *)

\* close() has ended a Ready session: a connection was opened once and the
\* session holds none now
Closed == connection = None /\ nextConn >= 1

\* the step's call was refused by the environment: the TLS connect failed,
\* the introspection rejected the token, the token's expiry has passed by
\* now, or AUTHENTICATE / LOGIN was not answered OK
EnvironmentRefuses ==
    \/ trace'[1].ans # "ok"
    \/ ExpiryElapsed
    \/ \E i \in 1..Len(trace') :
           \/ trace'[i].kind = "TOKENINFO" /\ PreCheck(trace'[i].reply) # NoError
           \/ trace'[i].kind \in {"SASL", "LOGIN"} /\ trace'[i].ans # "OK"

\* the call after close() connects as the first call of a session does
ConnectsAgain ==
    (Closed /\ op' \in PublicOps \cup {"connect"}) =>
        /\ trace' # << >>
        /\ trace'[1].kind = "TLS"
        /\ trace'[1].ans = "ok" =>
               /\ nextConn' = nextConn + 1
               /\ connection' = nextConn'
        /\ \A i \in 1..Len(trace') :
               /\ trace'[i].kind = "LOGIN" => trace'[i].payload = password.value
               /\ trace'[i].kind = "SASL" =>
                      trace'[i].payload
                          = _build_xoauth2_bytes(token_bundle, email, now).bytes
        /\ (connection' # None /\ authenticated') \/ EnvironmentRefuses
        /\ ~EnvironmentRefuses => raised' \notin {ConnErr, AuthErr}

\* close() leaves the fields as the constructor sets them, and the
\* credentials as they were
ClosedAsConstructed ==
    (Ready /\ op' = "close") =>
        /\ connection' = None
        /\ ~authenticated'
        /\ UNCHANGED << email, token_bundle, password >>

\* C30: Closed is not a terminal state: after close() on a Ready session the
\* next public operation or connect() on the same session opens a new
\* connection and authenticates again with the same credentials instead of
\* failing, and the cycle of connecting and closing can be repeated.
C30_ClosedSessionReconnects == [][ConnectsAgain /\ ClosedAsConstructed]_vars

\* a public operation on a closed session has opened the second connection,
\* authenticated, and done its work; the first connection was logged out
C30_Witness ==
    /\ op \in PublicOps
    /\ ~wasReady
    /\ Ready
    /\ raised = NoError
    /\ connection = 2
    /\ sockets = {2}

====
